---- MODULE Spec2Model ----
(***************************************************************************)
(* Broforce map downloader (src/broforce_map_downloader.py): the retrying  *)
(* fetcher, the title sanitizer and the scan / fetch / download /          *)
(* organize / deduplicate pipeline over the maps directory.                *)
(*                                                                         *)
(* Strings the code splits, joins or filters are sequences of one-char     *)
(* strings, so that str.split, str.join, str.replace and str.isdigit are   *)
(* computed as Python computes them.                                       *)
(***************************************************************************)
EXTENDS Integers, Sequences, FiniteSets, TLC

\* ------------------------------------------------------------------ strings

Digits == {"0", "1", "2", "3", "4", "5", "6", "7", "8", "9"}

\* str.isdigit(): non-empty and every character a digit
IsDigit(s) == Len(s) > 0 /\ \A i \in 1..Len(s) : s[i] \in Digits

DigitVal(c) == CHOOSE n \in 0..9 : <<"0", "1", "2", "3", "4", "5", "6", "7", "8", "9">>[n + 1] = c

RECURSIVE ToInt(_)
\* int(s) of a digit string
ToInt(s) == IF Len(s) = 0 THEN 0
            ELSE 10 * ToInt(SubSeq(s, 1, Len(s) - 1)) + DigitVal(s[Len(s)])

RECURSIVE Split(_, _)
\* s.split(c) for a one-character separator c: never empty, keeps empty fields
Split(s, c) ==
    IF \A i \in 1..Len(s) : s[i] # c THEN <<s>>
    ELSE LET i == CHOOSE k \in 1..Len(s) : s[k] = c /\ \A j \in 1..(k - 1) : s[j] # c
         IN  <<SubSeq(s, 1, i - 1)>> \o Split(SubSeq(s, i + 1, Len(s)), c)

RECURSIVE Join(_, _)
\* sep.join(parts)
Join(parts, sep) ==
    IF Len(parts) = 0 THEN <<>>
    ELSE IF Len(parts) = 1 THEN parts[1]
    ELSE parts[1] \o sep \o Join(Tail(parts), sep)

NonEmpty(p) == Len(p) > 0

\* s.split() with no argument: fields between whitespace runs, no empty field
WsSplit(s) == SelectSeq(Split(s, " "), NonEmpty)

RECURSIVE Replace(_, _, _)
\* s.replace(c, r) for a one-character c
Replace(s, c, r) ==
    IF Len(s) = 0 THEN <<>>
    ELSE (IF s[1] = c THEN r ELSE <<s[1]>>) \o Replace(Tail(s), c, r)

\* s.endswith(suf)
EndsWith(s, suf) ==
    Len(s) >= Len(suf) /\ SubSeq(s, Len(s) - Len(suf) + 1, Len(s)) = suf

\* ------------------------------------------------------------------ _try_request

max_retries == 4
delay == 3

\* what one requests.get can do: a response with a status code, or a
\* RequestException
OkStatus == "200"
BadStatuses == {"404", "503"}
Exceptions == {"ConnectionError", "Timeout"}
Outcomes == {OkStatus} \cup BadStatuses \cup Exceptions

OutcomeSeqs == [1..max_retries -> Outcomes]

\* last_response / last_exception = None
None == 0

\* time.sleep(delay * (2 ** (attempt - 1))) when attempt < max_retries
SleepAfterWrong(sleeps, attempt) ==
    IF attempt <= max_retries THEN Append(sleeps, delay * (2 ^ (attempt - 1))) ELSE sleeps

SleepAfter(sleeps, attempt) ==
    IF attempt < max_retries THEN Append(sleeps, delay * (2 ^ (attempt - 1))) ELSE sleeps

\* the code after the loop: the last response wins over the last exception
AfterLoopWrong(outs, last_response, last_exception, sleeps) ==
    IF last_exception # None
    THEN [ret |-> "raise", what |-> outs[last_exception], at |-> last_exception,
          attempts |-> max_retries, sleeps |-> sleeps]
    ELSE IF last_response # None
    THEN [ret |-> "response", what |-> outs[last_response], at |-> last_response,
          attempts |-> max_retries, sleeps |-> sleeps]
    ELSE [ret |-> "none", what |-> "None", at |-> None,
          attempts |-> max_retries, sleeps |-> sleeps]

AfterLoop(outs, last_response, last_exception, sleeps) ==
    IF last_response # None
    THEN [ret |-> "response", what |-> outs[last_response], at |-> last_response,
          attempts |-> max_retries, sleeps |-> sleeps]
    ELSE IF last_exception # None
    THEN [ret |-> "raise", what |-> outs[last_exception], at |-> last_exception,
          attempts |-> max_retries, sleeps |-> sleeps]
    ELSE [ret |-> "none", what |-> "None", at |-> None,
          attempts |-> max_retries, sleeps |-> sleeps]

RECURSIVE TryLoop(_, _, _, _, _)
\* the for loop of _try_request from `attempt` on; outs[k] is what the k-th
\* requests.get does
TryLoop(outs, attempt, last_response, last_exception, sleeps) ==
    IF attempt > max_retries
    THEN AfterLoop(outs, last_response, last_exception, sleeps)
    ELSE IF outs[attempt] = OkStatus
    THEN [ret |-> "response", what |-> OkStatus, at |-> attempt,
          attempts |-> attempt, sleeps |-> sleeps]
    ELSE IF outs[attempt] \in BadStatuses
    THEN TryLoop(outs, attempt + 1, attempt, last_exception, SleepAfter(sleeps, attempt))
    ELSE TryLoop(outs, attempt + 1, last_response, attempt, SleepAfter(sleeps, attempt))

\* _try_request(url): the result of the call, the number of GETs it made and
\* the sleeps it took, in order
TryRequest(outs) == TryLoop(outs, 1, None, None, <<>>)

\* ------------------------------------------------------------------ title sanitizer

Space == <<" ">>

\* the characters of '"\/*?<>|'
Illegal == {"\"", "\\", "/", "*", "?", "<", ">", "|"}

Legal(x) == x \notin Illegal

\* the three assignments to safe_title in download_map
Sanitize(t) ==
    SelectSeq(Replace(Join(WsSplit(t), Space), ":", <<" ", "-">>), Legal)

\* ------------------------------------------------------------------ configuration

\* the number of pages the configuration asks for
number_of_pages == 2

\* the validated configuration: gameplay_types / difficulty_levels keep the
\* order of the cleaned (sorted) config strings
cfg == [number_of_pages |-> number_of_pages,
        gameplay_types |-> <<"1", "3">>,
        difficulty_levels |-> <<"1">>]

\* the (gameplay_key, difficulty_key) pairs in the order of the two nested loops
Combos ==
    LET g == cfg.gameplay_types
        d == cfg.difficulty_levels
    IN  [k \in 1..(Len(g) * Len(d)) |->
            [gameplay |-> g[((k - 1) \div Len(d)) + 1],
             difficulty |-> d[((k - 1) % Len(d)) + 1]]]

NCombos == Len(Combos)

\* ------------------------------------------------------------------ the remote side

\* the workshop items the listing can show: the id in the item's link, the
\* text of its title tag, the digits of "<digits>-star.png" in its rating
\* image (<<>>: the src does not match), the gameplay tags it is listed
\* under, and what the download serves
Catalog == {
    [id |-> <<"7">>, title |-> <<"A", ":", "B">>, stars |-> <<"5">>, tags |-> {"1", "3"},
     ext |-> <<"b", "f", "g">>, author |-> <<"a", "l">>, size |-> 3],
    [id |-> <<"1", "0">>, title |-> <<"A", ":", "B">>, stars |-> <<"4">>, tags |-> {"1"},
     ext |-> <<"b", "f", "g">>, author |-> <<"a", "l">>, size |-> 5] }

Ids == {m.id : m \in Catalog}

Item(id) == CHOOSE m \in Catalog : m.id = id

\* the item blocks a listing page of the pair c can hold: maps with the tag
\* of its gameplay type, one or two of them
PageMenu(c) ==
    LET tagged == {m.id : m \in {x \in Catalog : Combos[c].gameplay \in x.tags}}
    IN  {<<>>} \cup {<<a>> : a \in tagged}
               \cup {<<a, b>> : a \in {<<"1", "0">>} \cap tagged, b \in {<<"7">>} \cap tagged}

\* a listing that answers every request of a page with the same items
StableListings ==
    {[stable |-> TRUE, pages |-> l] :
        l \in {m \in [1..NCombos -> [1..cfg.number_of_pages -> {<<>>, << <<"7">> >>}]] :
                   \A c \in 1..NCombos : m[c][cfg.number_of_pages] = <<>>}}

\* a listing that may answer every request differently
ChangingListing == [stable |-> FALSE, pages |-> <<>>]

\* ------------------------------------------------------------------ the maps directory

Root == "maps"
Stars5 == "5 Stars"
Stars4 == "4 Stars"
Stars3 == "3 Stars and less"
NonBfg == "non-bfg"
Duplicates == "duplicates"

Dash == <<"-">>
Dot == <<".">>
DotBfg == <<".", "b", "f", "g">>

\* files somebody else put into the maps directory
ForeignFiles == {
    [dir |-> Root, name |-> <<"s", "o", "l", "o">> \o DotBfg,
     header |-> "ok", author |-> <<"z">>, size |-> 1, whole |-> TRUE],
    [dir |-> Root, name |-> <<"q", "-", "w", "-", "e">> \o DotBfg,
     header |-> "ok", author |-> <<"z">>, size |-> 1, whole |-> TRUE],
    [dir |-> Root, name |-> <<"a", "5", "-", "b", "-", "c", ".", "z", "i", "p">>,
     header |-> "missing", author |-> <<>>, size |-> 1, whole |-> TRUE] }

\* ------------------------------------------------------------------ state

VARIABLES
    pc,         \* where the main program is
    store,      \* the regular files under the maps directory
    report,     \* the lines this run wrote to duplicates/@duplicates.txt
    listing,    \* the remote listing: changing, or stable with its pages
    existing,   \* existing_workshop_ids
    combo,      \* index of the gameplay / difficulty pair being enumerated
    page,       \* page of the for loop
    requested,  \* the pages requested by this enumeration: failed, empty or with items
    tasks,      \* all_map_urls
    idx,        \* index of the download loop
    count,      \* successfully_downloaded_maps
    outs,       \* what each requests.get of one _try_request call does
    fres,       \* what that call returned
    title,      \* a title given to the sanitizer
    safe,       \* safe_title
    page_texts, \* the texts of a resolver page that hold 'Filename:'
    resolved,   \* what download_map did with that page
    probes,     \* map files handed to list_duplicate_maps
    keys        \* the (map_name, author) key it filed each of them under

pvars == <<pc, store, report, listing, existing, combo, page, requested, tasks, idx, count>>
fvars == <<outs, fres>>
svars == <<title, safe>>
rvars == <<page_texts, resolved>>
avars == <<probes, keys>>
vars == <<pc, store, report, listing, existing, combo, page, requested, tasks, idx, count,
          outs, fres, title, safe, page_texts, resolved, probes, keys>>

\* ------------------------------------------------------------------ fetch_all_map_urls

\* the three ways a _try_request call ends for its caller: a response with
\* status 200, a response with another status, a raised RequestException
FetchResult(o) ==
    LET r == TryRequest(o)
    IN  IF r.ret = "raise" THEN "raise"
        ELSE IF r.what = OkStatus THEN "ok" ELSE "bad"

\* the attempt outcomes the pipeline's requests are drawn from: every
\* attempt alike, or mixed
SomeOutcomeSeqs ==
    {[k \in 1..max_retries |-> x] : x \in Outcomes}
    \cup {[k \in 1..max_retries |-> IF k < max_retries THEN "Timeout" ELSE OkStatus],
          [k \in 1..max_retries |-> IF k = 1 THEN "503" ELSE "ConnectionError"],
          [k \in 1..max_retries |-> IF k = 1 THEN "Timeout" ELSE "404"]}

FetchOutcomes == {FetchResult(o) : o \in SomeOutcomeSeqs}

Fields(name) == Split(name, "-")

\* get_existing_workshop_ids: every file under the directory, at any depth
GetExistingRootOnly(files) ==
    {Fields(f.name)[2] :
        f \in {g \in files : /\ g.dir = Root
                             /\ Len(Fields(g.name)) > 1
                             /\ IsDigit(Fields(g.name)[2])}}

GetExistingWorkshopIds(files) ==
    {Fields(f.name)[2] :
        f \in {g \in files : Len(Fields(g.name)) > 1 /\ IsDigit(Fields(g.name)[2])}}

\* extract_star_rating: the digits before "-star.png", '0' without a match
ExtractStarRating(src) == IF Len(src) > 0 THEN src ELSE <<"0">>

\* the tuple appended to all_map_urls for one item of the pair c
TaskOf(id, c) ==
    [workshop_id |-> id,
     title |-> Item(id).title,
     filename_prefix |-> <<Combos[c].gameplay, Combos[c].difficulty>>
                          \o ExtractStarRating(Item(id).stars)]

RECURSIVE PageTasks(_, _, _)
\* the loop over the items of one page: items whose id is known are skipped
PageTasks(items, known, c) ==
    IF Len(items) = 0 THEN <<>>
    ELSE (IF Head(items) \in known THEN <<>> ELSE <<TaskOf(Head(items), c)>>)
         \o PageTasks(Tail(items), known, c)

\* where the loops go after page p of pair c: `continue` and the end of the
\* body go to the next page, `break` to the next pair
AfterContinue(c, p) ==
    IF p < cfg.number_of_pages THEN [combo |-> c, page |-> p + 1, pc |-> "enum"]
    ELSE IF c < NCombos THEN [combo |-> c + 1, page |-> 1, pc |-> "enum"]
    ELSE [combo |-> c, page |-> p, pc |-> "fetched"]

AfterBreakWrong(c, p) == AfterContinue(c, p)

AfterBreak(c, p) ==
    IF c < NCombos THEN [combo |-> c + 1, page |-> 1, pc |-> "enum"]
    ELSE [combo |-> c, page |-> p, pc |-> "fetched"]

\* what the listing shows on page p of pair c
Shown(c, p) == IF listing.stable THEN {listing.pages[c][p]} ELSE PageMenu(c)

\* the locals of fetch_all_map_urls and download_all_maps are gone
LocalsGone ==
    /\ existing' = {}
    /\ combo' = 1
    /\ page' = 1
    /\ requested' = <<>>
    /\ tasks' = <<>>
    /\ idx' = 0

Running == {"enum", "fetched", "download", "organize", "dedup"}
Stopped == {"start", "done", "exit_config", "exit_user", "exit_nonew", "crashed", "killed"}

\* load_and_validate_config raises ValueError: the program exits
ConfigError ==
    /\ pc \in Stopped
    /\ pc' = "exit_config"
    /\ LocalsGone
    /\ count' = 0
    /\ report' = <<>>
    /\ UNCHANGED <<store, listing>>
    /\ UNCHANGED <<fvars, svars, rvars, avars>>

\* display_settings_info: the user answers q
UserExit ==
    /\ pc \in Stopped
    /\ pc' = "exit_user"
    /\ LocalsGone
    /\ count' = 0
    /\ report' = <<>>
    /\ UNCHANGED <<store, listing>>
    /\ UNCHANGED <<fvars, svars, rvars, avars>>

\* the start of fetch_all_map_urls: the scan of the maps directory
BeginFetch ==
    /\ pc \in Stopped
    /\ pc' = "enum"
    /\ existing' = GetExistingWorkshopIds(store)
    /\ combo' = 1
    /\ page' = 1
    /\ requested' = <<>>
    /\ tasks' = <<>>
    /\ idx' = 0
    /\ count' = 0
    /\ report' = <<>>
    /\ UNCHANGED <<store, listing>>
    /\ UNCHANGED <<fvars, svars, rvars, avars>>

\* one iteration of the page loop, the request failing (status or exception)
FetchPageFailed ==
    /\ pc = "enum"
    /\ \E r \in FetchOutcomes \ {"ok"} :
          LET nxt == AfterContinue(combo, page)
          IN  /\ requested' = Append(requested, [combo |-> combo, page |-> page,
                                                 res |-> "failed"])
              /\ pc' = nxt.pc
              /\ combo' = nxt.combo
              /\ page' = nxt.page
    /\ UNCHANGED <<store, report, listing, existing, tasks, idx, count>>
    /\ UNCHANGED <<fvars, svars, rvars, avars>>

\* one iteration of the page loop, the request answered with 200 and the
\* body read
FetchPage ==
    /\ pc = "enum"
    /\ \E items \in Shown(combo, page) :
          LET nxt == IF Len(items) = 0 THEN AfterBreak(combo, page)
                     ELSE AfterContinue(combo, page)
          IN  /\ requested' = Append(requested,
                                      [combo |-> combo, page |-> page,
                                       res |-> IF Len(items) = 0 THEN "empty" ELSE "items"])
              /\ tasks' = tasks \o PageTasks(items, existing, combo)
              /\ pc' = nxt.pc
              /\ combo' = nxt.combo
              /\ page' = nxt.page
    /\ UNCHANGED <<store, report, listing, existing, idx, count>>
    /\ UNCHANGED <<fvars, svars, rvars, avars>>

\* one iteration of the page loop, the request answered with 200 (stream=True:
\* the body is not read yet) and response.text raising a RequestException:
\* line 168 is outside the try, nothing catches it
FetchPageBodyError ==
    /\ pc = "enum"
    /\ pc' = "crashed"
    /\ LocalsGone
    /\ UNCHANGED <<store, report, listing, count>>
    /\ UNCHANGED <<fvars, svars, rvars, avars>>

\* __main__ after fetch_all_map_urls: no new maps ends the program
NoNewMaps ==
    /\ pc = "fetched"
    /\ Len(tasks) = 0
    /\ pc' = "exit_nonew"
    /\ existing' = {}
    /\ combo' = 1
    /\ page' = 1
    /\ UNCHANGED <<store, report, listing, requested, tasks, idx, count>>
    /\ UNCHANGED <<fvars, svars, rvars, avars>>

\* __main__ after fetch_all_map_urls: download_all_maps starts
BeginDownload ==
    /\ pc = "fetched"
    /\ Len(tasks) > 0
    /\ pc' = "download"
    /\ idx' = 1
    /\ count' = 0
    /\ requested' = <<>>
    /\ existing' = {}
    /\ combo' = 1
    /\ page' = 1
    /\ UNCHANGED <<store, report, listing, tasks>>
    /\ UNCHANGED <<fvars, svars, rvars, avars>>

\* ------------------------------------------------------------------ download_map, download_file

Letters == {"a", "b", "c", "d", "e", "f", "g", "h", "i", "j", "k", "l", "m",
            "n", "o", "p", "q", "r", "s", "t", "u", "v", "w", "x", "y", "z",
            "A", "B", "C", "D", "E", "F", "G", "H", "I", "J", "K", "L", "M",
            "N", "O", "P", "Q", "R", "S", "T", "U", "V", "W", "X", "Y", "Z"}

\* re.match(r'^[a-zA-Z0-9]+$', s)
IsAlnum(s) == Len(s) > 0 /\ \A i \in 1..Len(s) : s[i] \in Letters \cup Digits

RECURSIVE LStrip(_)
LStrip(s) == IF Len(s) > 0 /\ s[1] = " " THEN LStrip(Tail(s)) ELSE s

RECURSIVE RStrip(_)
RStrip(s) == IF Len(s) > 0 /\ s[Len(s)] = " " THEN RStrip(SubSeq(s, 1, Len(s) - 1)) ELSE s

\* s.strip()
Strip(s) == RStrip(LStrip(s))

\* the label every matched text holds, as one token
Label == "Filename:"

\* text.split('.')[-1].strip()
AfterLastDot(text) == LET parts == Split(text, ".") IN Strip(parts[Len(parts)])

NoExtension == [none |-> TRUE, ext |-> <<>>]

RECURSIVE ScanTexts(_, _)
\* the loop over the texts that hold 'Filename:', file_extension being cur
ScanTexts(texts, cur) ==
    IF Len(texts) = 0 THEN cur
    ELSE LET e == AfterLastDot(Head(texts))
         IN  IF Len(e) = 0 THEN ScanTexts(Tail(texts), [none |-> FALSE, ext |-> e])
             ELSE IF ~IsAlnum(e) THEN ScanTexts(Tail(texts), NoExtension)
             ELSE [none |-> FALSE, ext |-> e]

FileExtension(texts) == ScanTexts(texts, NoExtension)

\* the 'Filename:' text of the resolver page of a map
FilenameText(id) == <<Label, " ", "m", ".">> \o Item(id).ext

\* the resolver pages the download site can answer with: the texts that
\* hold 'Filename:' and whether there is a link whose text starts 'Download:'
ResolverPages(id) ==
    { [filenames |-> <<FilenameText(id)>>, link |-> TRUE],
      [filenames |-> <<>>, link |-> TRUE],
      [filenames |-> <<FilenameText(id)>>, link |-> FALSE] }

\* what the network does during one download_map call: the resolver request,
\* reading its body, the page, the file request, and whether the body of the
\* file streams to its end or is cut
NetCases(id) ==
    [resolver : FetchOutcomes, body : {"read", "error"}, page : ResolverPages(id),
     file : FetchOutcomes, stream : {"all", "cut"}]

\* f'{filename_prefix}-{workshop_id}-{safe_title}.{file_extension}'
Filename(prefix, id, safe_title, ext) ==
    prefix \o Dash \o id \o Dash \o safe_title \o Dot \o ext

NoFile == [dir |-> "", name |-> <<>>, header |-> "missing", author |-> <<>>,
           size |-> 0, whole |-> FALSE]

\* download_file: what is on disk at full_path afterwards (NoFile: nothing
\* was opened) and whether it returned True; a RequestException it raises
\* is caught by download_map
DownloadFile(id, name, net) ==
    IF net.file # "ok" THEN [success |-> FALSE, file |-> NoFile]
    ELSE IF net.stream = "all"
    THEN [success |-> TRUE,
          file |-> [dir |-> Root, name |-> name, header |-> "ok",
                    author |-> Item(id).author, size |-> Item(id).size, whole |-> TRUE]]
    ELSE [success |-> FALSE,
          file |-> [dir |-> Root, name |-> name, header |-> "missing",
                    author |-> <<>>, size |-> 0, whole |-> FALSE]]

\* download_map
DownloadMap(task, net) ==
    LET safe_title == Sanitize(task.title)
        fe == FileExtension(net.page.filenames)
    IN  IF net.resolver # "ok" \/ net.body = "error" THEN [success |-> FALSE, file |-> NoFile]
        ELSE IF fe.none THEN [success |-> FALSE, file |-> NoFile]
        ELSE IF ~net.page.link THEN [success |-> FALSE, file |-> NoFile]
        ELSE DownloadFile(task.workshop_id,
                          Filename(task.filename_prefix, task.workshop_id, safe_title, fe.ext),
                          net)

\* open(path, 'wb') and the writes: the file at that path is replaced
WriteFile(files, f) ==
    IF f = NoFile THEN files
    ELSE {g \in files : ~(g.dir = f.dir /\ g.name = f.name)} \cup {f}

\* one iteration of the loop of download_all_maps
DownloadNext ==
    /\ pc = "download"
    /\ \E net \in NetCases(tasks[idx].workshop_id) :
          LET r == DownloadMap(tasks[idx], net)
          IN  /\ store' = WriteFile(store, r.file)
              /\ count' = IF r.success THEN count + 1 ELSE count
    /\ IF idx < Len(tasks)
       THEN idx' = idx + 1 /\ pc' = pc /\ tasks' = tasks
       ELSE idx' = 0 /\ pc' = "organize" /\ tasks' = <<>>
    /\ UNCHANGED <<report, listing, existing, combo, page, requested>>
    /\ UNCHANGED <<fvars, svars, rvars, avars>>

\* the process is terminated between two steps
Kill ==
    /\ pc \in Running
    /\ pc' = "killed"
    /\ LocalsGone
    /\ count' = 0
    /\ UNCHANGED <<store, report, listing>>
    /\ UNCHANGED <<fvars, svars, rvars, avars>>

\* the process is terminated while download_file writes the chunks
KillWhileWriting ==
    /\ pc = "download"
    /\ \E net \in NetCases(tasks[idx].workshop_id) :
          /\ net.stream # "all"
          /\ DownloadMap(tasks[idx], net).file # NoFile
          /\ store' = WriteFile(store, DownloadMap(tasks[idx], net).file)
    /\ pc' = "killed"
    /\ LocalsGone
    /\ count' = 0
    /\ UNCHANGED <<report, listing>>
    /\ UNCHANGED <<fvars, svars, rvars, avars>>

\* ------------------------------------------------------------------ organize_files

NoFolder == "None"

\* get_target_folder
GetTargetFolderStrict(file_name) ==
    IF ~EndsWith(file_name, DotBfg) THEN NonBfg
    ELSE LET parts == Fields(file_name)
         IN  IF Len(parts) > 2 /\ Len(parts[1]) > 0
             THEN LET star_rating == parts[1][Len(parts[1])]
                  IN  IF star_rating = "5" THEN Stars5
                      ELSE IF star_rating = "4" THEN Stars4
                      ELSE IF star_rating \in Digits THEN Stars3
                      ELSE NoFolder
             ELSE NoFolder

GetTargetFolder(file_name) ==
    IF ~EndsWith(file_name, DotBfg) THEN NonBfg
    ELSE LET parts == Fields(file_name)
         IN  IF Len(parts) > 2 /\ Len(parts[1]) > 0
             THEN LET star_rating == parts[1][Len(parts[1])]
                  IN  IF star_rating = "5" THEN Stars5
                      ELSE IF star_rating = "4" THEN Stars4
                      ELSE Stars3
             ELSE NoFolder

\* file_path.rename(target): the file moves; a file already at the target is
\* replaced (POSIX; no rename of the runs modelled meets another file there)
Rename(files, f, dir) ==
    {g \in files : g # f /\ ~(g.dir = dir /\ g.name = f.name)} \cup {[f EXCEPT !.dir = dir]}

RECURSIVE RenameAll(_, _)
\* the renames of a loop, moves being the (file, target folder) pairs
RenameAll(files, moves) ==
    IF moves = {} THEN files
    ELSE LET m == CHOOSE x \in moves : TRUE
         IN  RenameAll(Rename(files, m[1], m[2]), moves \ {m})

\* organize_files: every regular file directly under the directory
OrganizeFiles(files) ==
    RenameAll(files,
              {<<f, GetTargetFolder(f.name)>> :
                  f \in {g \in files : g.dir = Root /\ GetTargetFolder(g.name) # NoFolder}})

Organize ==
    /\ pc = "organize"
    /\ store' = OrganizeFiles(store)
    /\ pc' = "dedup"
    /\ UNCHANGED <<report, listing, existing, combo, page, requested, tasks, idx, count>>
    /\ UNCHANGED <<fvars, svars, rvars, avars>>

\* ------------------------------------------------------------------ list_duplicate_maps, process_duplicates

\* the printable ASCII characters in code point order, from 32 (the
\* backtick, which a string of this language cannot hold, as a token)
Ascii == <<
    " ", "!", "\"", "#", "$", "%", "&", "'", "(", ")", "*", "+", ",", "-",
    ".", "/", "0", "1", "2", "3", "4", "5", "6", "7", "8", "9", ":", ";", "<",
    "=", ">", "?", "@", "A", "B", "C", "D", "E", "F", "G", "H", "I", "J", "K",
    "L", "M", "N", "O", "P", "Q", "R", "S", "T", "U", "V", "W", "X", "Y", "Z",
    "[", "\\", "]", "^", "_", "(backtick)", "a", "b", "c", "d", "e", "f", "g", "h",
    "i", "j", "k", "l", "m", "n", "o", "p", "q", "r", "s", "t", "u", "v", "w",
    "x", "y", "z", "{", "|", "}", "~" >>

\* ord(c)
Ord(c) == 31 + CHOOSE i \in 1..Len(Ascii) : Ascii[i] = c

RECURSIVE StrLess(_, _)
\* a < b for two str
StrLess(a, b) ==
    IF Len(b) = 0 THEN FALSE
    ELSE IF Len(a) = 0 THEN TRUE
    ELSE IF a[1] # b[1] THEN Ord(a[1]) < Ord(b[1])
    ELSE StrLess(Tail(a), Tail(b))

\* (a1, a2) <= (b1, b2) for two tuples of str
PairLessEq(a1, a2, b1, b2) ==
    IF a1 # b1 THEN StrLess(a1, b1) ELSE (a2 = b2 \/ StrLess(a2, b2))

\* the index of the last c in s, 0 if there is none
LastIndex(s, c) ==
    IF \A i \in 1..Len(s) : s[i] # c THEN 0
    ELSE CHOOSE k \in 1..Len(s) : s[k] = c /\ \A j \in (k + 1)..Len(s) : s[j] # c

\* Path.stem
Stem(name) ==
    LET i == LastIndex(name, ".")
    IN  IF 1 < i /\ i < Len(name) THEN SubSeq(name, 1, i - 1) ELSE name

Unknown == <<"<", "u", "n", "k", "n", "o", "w", "n", ">">>

\* the value None as an author: no str, and equal to no str
NoneAuthor == <<"(None)">>

\* what the first 1024 bytes of a map file can hold: a header with an author
\* element that has text ("ok"), a header without an author element, a
\* header whose author element is empty, no header markers, or markers
\* around a fragment that does not parse
HeaderKinds == {"ok", "noauthor", "emptyauthor", "missing", "malformed"}

\* extract_info_from_bfg(filepath).get('author', '<unknown>'): {} without a
\* header that parses; else root.find('author').text, which is None for an
\* empty element, or '' when there is no such element
AuthorOf(f) ==
    IF f.header = "ok" THEN f.author
    ELSE IF f.header = "noauthor" THEN <<>>
    ELSE IF f.header = "emptyauthor" THEN NoneAuthor
    ELSE Unknown

RECURSIVE Perms(_)
Perms(S) ==
    IF S = {} THEN {<<>>}
    ELSE UNION {{<<x>> \o p : p \in Perms(S \ {x})} : x \in S}

\* the orders in which directory.rglob can yield a set of files: os.scandir
\* lists a directory in arbitrary order; the files of the directory itself
\* come before those of its subdirectories, each subdirectory in one piece
ScanOrders(S) ==
    {s \in Perms(S) :
        /\ \A i, j \in 1..Len(s) : (i < j /\ s[j].dir = Root) => s[i].dir = Root
        /\ \A i, j, k \in 1..Len(s) :
              (i < j /\ j < k /\ s[i].dir = s[k].dir) => s[j].dir = s[i].dir}

\* the entry list_duplicate_maps makes for one file
Detail(f) ==
    LET parts == Split(Stem(f.name), "-")
    IN  [map_id |-> parts[2],
         map_name |-> Join(SubSeq(parts, 3, Len(parts)), Dash),
         author |-> AuthorOf(f),
         size |-> f.size,
         file |-> f]

Considered(f) == EndsWith(f.name, DotBfg) /\ Len(Split(Stem(f.name), "-")) > 2

SameKey(a, b) == a.map_name = b.map_name /\ a.author = b.author

\* list_duplicate_maps over the files in the order scan: the groups of more
\* than one file in the order of the dict (first appearance of the key),
\* each with its files in the order of the scan
ListDuplicateMaps(scan) ==
    LET details == [i \in 1..Len(scan) |-> Detail(scan[i])]
        first(i) == \A j \in 1..(i - 1) : ~SameKey(details[j], details[i])
        members(i) == LET same(d) == SameKey(d, details[i]) IN SelectSeq(details, same)
        leads == LET lead(d) == \E i \in 1..Len(details) :
                                   /\ details[i] = d
                                   /\ first(i)
                                   /\ Len(members(i)) > 1
                 IN  SelectSeq(details, lead)
    IN  [g \in 1..Len(leads) |->
            LET same(d) == SameKey(d, leads[g]) IN SelectSeq(details, same)]

RECURSIVE InsertByIdDesc(_, _)
InsertByIdDesc(sorted, x) ==
    IF Len(sorted) = 0 THEN <<x>>
    ELSE IF ToInt(Head(sorted).map_id) >= ToInt(x.map_id)
    THEN <<Head(sorted)>> \o InsertByIdDesc(Tail(sorted), x)
    ELSE <<x>> \o sorted

RECURSIVE SortedByIdDesc(_)
\* sorted(files, key=lambda x: int(x[0]), reverse=True): stable
SortedByIdDesc(files) ==
    IF Len(files) = 0 THEN <<>>
    ELSE InsertByIdDesc(SortedByIdDesc(SubSeq(files, 1, Len(files) - 1)), files[Len(files)])

RECURSIVE InsertByKey(_, _)
InsertByKey(sorted, x) ==
    IF Len(sorted) = 0 THEN <<x>>
    ELSE IF PairLessEq(Head(sorted).map_name, Head(sorted).author, x.map_name, x.author)
    THEN <<Head(sorted)>> \o InsertByKey(Tail(sorted), x)
    ELSE <<x>> \o sorted

RECURSIVE SortedByKey(_)
\* duplicates_info.sort(key=lambda x: (x[0], x[1])): stable
SortedByKey(info) ==
    IF Len(info) = 0 THEN <<>>
    ELSE InsertByKey(SortedByKey(SubSeq(info, 1, Len(info) - 1)), info[Len(info)])

RECURSIVE Flatten(_)
Flatten(ss) == IF Len(ss) = 0 THEN <<>> ELSE Head(ss) \o Flatten(Tail(ss))

\* the entries process_duplicates appends for one group
GroupInfo(group) ==
    LET files_sorted == SortedByIdDesc(group)
    IN  [i \in 1..Len(files_sorted) |->
            [map_name |-> files_sorted[i].map_name,
             author |-> files_sorted[i].author,
             status |-> IF i = 1 THEN "Main" ELSE "Dupl",
             map_id |-> files_sorted[i].map_id,
             size |-> files_sorted[i].size]]

\* the files process_duplicates moves for one group
GroupMoves(group) ==
    LET files_sorted == SortedByIdDesc(group)
    IN  {<<files_sorted[i].file, Duplicates>> : i \in 2..Len(files_sorted)}

\* the lines written to @duplicates.txt
ReportLines(info) ==
    LET line(i) ==
            LET e == info[i]
                head == [status |-> "head", map_name |-> e.map_name, author |-> e.author,
                         map_id |-> <<>>, size |-> 0]
                blank == [status |-> "blank", map_name |-> <<>>, author |-> <<>>,
                          map_id |-> <<>>, size |-> 0]
            IN  IF i = 1 THEN <<head, e>>
                ELSE IF e.map_name # info[i - 1].map_name \/ e.author # info[i - 1].author
                THEN <<blank, head, e>>
                ELSE <<e>>
    IN  Flatten([i \in 1..Len(info) |-> line(i)])

\* process_duplicates
ProcessDuplicates(files, groups) ==
    [files |-> RenameAll(files, UNION {GroupMoves(groups[g]) : g \in 1..Len(groups)}),
     report |-> ReportLines(SortedByKey(Flatten([g \in 1..Len(groups) |-> GroupInfo(groups[g])])))]

\* list_duplicate_maps and process_duplicates, as __main__ calls them
Deduplicate ==
    /\ pc = "dedup"
    /\ \E scan \in ScanOrders({f \in store : Considered(f)}) :
          LET r == ProcessDuplicates(store, ListDuplicateMaps(scan))
          IN  /\ store' = r.files
              /\ report' = r.report
    /\ pc' = "done"
    /\ UNCHANGED <<listing, existing, combo, page, requested, tasks, idx, count>>
    /\ UNCHANGED <<fvars, svars, rvars, avars>>

\* ------------------------------------------------------------------ the program

NotCalled == [ret |-> "pending", what |-> "None", at |-> None, attempts |-> 0, sleeps |-> <<>>]

NotSanitized == [done |-> FALSE, once |-> <<>>, twice |-> <<>>]

NotResolved == [done |-> FALSE]

NotGrouped == [done |-> FALSE]

\* no resolver page and no map file is under study
ProbesIdle ==
    /\ page_texts = <<>>
    /\ resolved = NotResolved
    /\ probes = <<>>
    /\ keys = NotGrouped

Init ==
    /\ pc = "start"
    /\ store = ForeignFiles
    /\ report = <<>>
    /\ listing \in {ChangingListing} \cup StableListings
    /\ existing = {}
    /\ combo = 1
    /\ page = 1
    /\ requested = <<>>
    /\ tasks = <<>>
    /\ idx = 0
    /\ count = 0
    /\ outs = [k \in 1..max_retries |-> OkStatus]
    /\ fres = NotCalled
    /\ title = <<>>
    /\ safe = NotSanitized
    /\ ProbesIdle

Next ==
    \/ ConfigError
    \/ UserExit
    \/ BeginFetch
    \/ FetchPageFailed
    \/ FetchPage
    \/ FetchPageBodyError
    \/ NoNewMaps
    \/ BeginDownload
    \/ DownloadNext
    \/ Kill
    \/ KillWhileWriting
    \/ Organize
    \/ Deduplicate

Spec == Init /\ [][Next]_vars

\* ------------------------------------------------------------------ one _try_request call

PipelineIdle ==
    /\ pc = "start"
    /\ store = {}
    /\ report = <<>>
    /\ listing = ChangingListing
    /\ existing = {}
    /\ combo = 1
    /\ page = 1
    /\ requested = <<>>
    /\ tasks = <<>>
    /\ idx = 0
    /\ count = 0

InitFetch ==
    /\ PipelineIdle
    /\ outs \in OutcomeSeqs
    /\ fres = NotCalled
    /\ title = <<>>
    /\ safe = NotSanitized
    /\ ProbesIdle

\* _try_request(url) against a network that answers the k-th GET with outs[k]
CallTryRequest ==
    /\ fres = NotCalled
    /\ fres' = TryRequest(outs)
    /\ UNCHANGED <<outs, pvars, svars, rvars, avars>>

NextFetch == CallTryRequest

SpecFetch == InitFetch /\ [][NextFetch]_vars

\* ------------------------------------------------------------------ the sanitizer alone

MaxTitleLen == 3

TitleChars == {"a", " ", ":"} \cup Illegal

Titles == UNION {[1..n -> TitleChars] : n \in 0..MaxTitleLen}

InitSanitize ==
    /\ PipelineIdle
    /\ outs = [k \in 1..max_retries |-> OkStatus]
    /\ fres = NotCalled
    /\ title \in Titles
    /\ safe = NotSanitized
    /\ ProbesIdle

\* the sanitizer applied to the title, and to its own output
ApplySanitize ==
    /\ ~safe.done
    /\ safe' = [done |-> TRUE, once |-> Sanitize(title), twice |-> Sanitize(Sanitize(title))]
    /\ UNCHANGED <<title, pvars, fvars, rvars, avars>>

NextSanitize == ApplySanitize

SpecSanitize == InitSanitize /\ [][NextSanitize]_vars

\* ------------------------------------------------------------------ the resolver alone

MaxTexts == 2

\* texts of a resolver page that hold 'Filename:': a plain extension, one
\* followed by a space, none after the last period, one with a character
\* outside [a-zA-Z0-9], no period at all
FilenameTexts ==
    { <<Label, " ", "m", ".", "b", "f", "g">>,
      <<Label, " ", "m", ".", "z", "i", "p", " ">>,
      <<Label, " ", "m", ".">>,
      <<Label, " ", "m", ".", "b", "!", "g">>,
      <<Label, " ", "m">> }

TextLists == UNION {[1..n -> FilenameTexts] : n \in 0..MaxTexts}

\* the task download_map is called with
ResolveTask == TaskOf(<<"7">>, 1)

\* the resolver request answers 200 with a page that holds the texts
ResolveCases(ts) ==
    [resolver : {"ok"}, body : {"read"},
     page : {[filenames |-> ts, link |-> l] : l \in BOOLEAN},
     file : FetchOutcomes, stream : {"all", "cut"}]

InitResolve ==
    /\ PipelineIdle
    /\ outs = [k \in 1..max_retries |-> OkStatus]
    /\ fres = NotCalled
    /\ title = <<>>
    /\ safe = NotSanitized
    /\ page_texts \in TextLists
    /\ resolved = NotResolved
    /\ probes = <<>>
    /\ keys = NotGrouped

\* download_map on a resolver page with these texts
ApplyResolve ==
    /\ ~resolved.done
    /\ \E net \in ResolveCases(page_texts) :
          resolved' = [done |-> TRUE,
                       link |-> net.page.link,
                       file_extension |-> FileExtension(page_texts),
                       out |-> DownloadMap(ResolveTask, net)]
    /\ UNCHANGED <<page_texts, pvars, fvars, svars, avars>>

NextResolve == ApplyResolve

SpecResolve == InitResolve /\ [][NextResolve]_vars

\* ------------------------------------------------------------------ list_duplicate_maps alone

MaxProbes == 2

\* map files named <prefix>-<id>-<map name>.bfg with the id i, a map name
\* and a header of every kind
ProbeFiles(i) ==
    {[dir |-> Stars5,
      name |-> <<"1", "1", "5", "-">> \o <<<<"1", "2", "3">>[i]>> \o <<"-", n>> \o DotBfg,
      header |-> h.kind, author |-> h.author, size |-> i, whole |-> TRUE] :
        n \in {"M", "N"},
        h \in {[kind |-> "ok", author |-> <<"a", "l">>]}
               \cup {[kind |-> k, author |-> <<>>] : k \in HeaderKinds \ {"ok"}}}

\* the files of a scan, the i-th with the id i
ProbeScans ==
    UNION {{s \in [1..n -> UNION {ProbeFiles(i) : i \in 1..n}] :
                \A i \in 1..n : s[i] \in ProbeFiles(i)} : n \in 1..MaxProbes}

InitGrouping ==
    /\ PipelineIdle
    /\ outs = [k \in 1..max_retries |-> OkStatus]
    /\ fres = NotCalled
    /\ title = <<>>
    /\ safe = NotSanitized
    /\ page_texts = <<>>
    /\ resolved = NotResolved
    /\ probes \in ProbeScans
    /\ keys = NotGrouped

\* list_duplicate_maps over the files, in this order
ApplyGrouping ==
    /\ ~keys.done
    /\ keys' = [done |-> TRUE,
                key |-> [i \in 1..Len(probes) |->
                            [map_name |-> Detail(probes[i]).map_name,
                             author |-> Detail(probes[i]).author]],
                duplicates |-> ListDuplicateMaps(probes)]
    /\ UNCHANGED <<probes, pvars, fvars, svars, rvars>>

NextGrouping == ApplyGrouping

SpecGrouping == InitGrouping /\ [][NextGrouping]_vars

\* ------------------------------------------------------------------ claims about _try_request

FirstOk(o) == CHOOSE k \in 1..max_retries : o[k] = OkStatus /\ \A j \in 1..(k - 1) : o[j] # OkStatus

\* C2: a call returns at the first 200 without a further GET; with no 200,
\* it raises the last exception when every attempt raised, and returns the
\* last response received otherwise, so that a raised error means no
\* response was ever received and a returned non-200 response is one the
\* server sent
C2_FetchOutcomeAsymmetry ==
    fres # NotCalled =>
        /\ (\E k \in 1..max_retries : outs[k] = OkStatus) =>
              /\ fres.ret = "response" /\ fres.what = OkStatus
              /\ fres.at = FirstOk(outs) /\ fres.attempts = FirstOk(outs)
        /\ (\A k \in 1..max_retries : outs[k] \in Exceptions) =>
              /\ fres.ret = "raise"
              /\ fres.at = max_retries /\ fres.what = outs[max_retries]
        /\ (\A k \in 1..max_retries : outs[k] \in BadStatuses) =>
              /\ fres.ret = "response"
              /\ fres.at = max_retries /\ fres.what = outs[max_retries]
        /\ fres.ret = "raise" => \A k \in 1..max_retries : outs[k] \in Exceptions
        /\ (fres.ret = "response" /\ fres.what # OkStatus) =>
              /\ outs[fres.at] = fres.what
              /\ fres.what \in BadStatuses
              /\ \A k \in (fres.at + 1)..max_retries : outs[k] \in Exceptions
        /\ fres.ret \in {"response", "raise"}

\* C2 happens: a response with a bad status came first, every later attempt
\* raised, and the call returned the response
C2_Witness ==
    /\ fres.ret = "response"
    /\ fres.what \in BadStatuses
    /\ fres.at = 1
    /\ outs[max_retries] \in Exceptions

\* C3: a call makes at most max_retries GETs and sleeps delay * 2^(k-1)
\* after its k-th failed attempt, except after the last one: after a 200 at
\* attempt n it has slept n - 1 times, after max_retries failures
\* max_retries - 1 times; with 4 and 3 the sleeps of a failing call are 3, 6, 12
C3_BoundedBackoff ==
    fres # NotCalled =>
        /\ fres.attempts \in 1..max_retries
        /\ Len(fres.sleeps) = (IF fres.what = OkStatus THEN fres.attempts - 1
                               ELSE max_retries - 1)
        /\ \A k \in 1..Len(fres.sleeps) : fres.sleeps[k] = delay * (2 ^ (k - 1))
        /\ (fres.what # OkStatus /\ max_retries = 4 /\ delay = 3) => fres.sleeps = <<3, 6, 12>>
        /\ fres.what # OkStatus => fres.attempts = max_retries

\* C3 happens: a call whose every attempt failed has slept 3, 6, 12
C3_Witness ==
    /\ fres.ret = "raise"
    /\ fres.attempts = max_retries
    /\ fres.sleeps = <<3, 6, 12>>

\* ------------------------------------------------------------------ claims about the sanitizer

\* C8: the sanitizer applied to its own output changes nothing
C8_SanitizeIdempotent == safe.done => safe.twice = safe.once

\* ------------------------------------------------------------------ claims about the pipeline

\* the second '-'-separated field of a file name, <<>> when there is none
SecondField(name) == IF Len(Fields(name)) > 1 THEN Fields(name)[2] ELSE <<>>

\* C1: while the enumeration of a run goes on and when it is over, no
\* download task carries an id that is the second filename field of a file
\* under the maps directory, wherever that file lies
C1_NoKnownIdEnumerated ==
    pc \in {"enum", "fetched"} =>
        \A i \in 1..Len(tasks) : \A f \in store : SecondField(f.name) # tasks[i].workshop_id

\* C1 happens: an enumeration over a stable listing is over, a page it read
\* shows a map whose file lies in the quarantine folder since an earlier
\* run, and no task was made for it
C1_Witness ==
    /\ pc = "fetched"
    /\ listing.stable
    /\ \E i \in 1..Len(requested) :
          /\ requested[i].res = "items"
          /\ \E f \in store :
                /\ f.dir = Duplicates
                /\ SecondField(f.name) = listing.pages[requested[i].combo][requested[i].page][1]
    /\ tasks = <<>>

\* C4: the pages of a pair are requested in increasing order from 1; after
\* a page that was read and held no item no further page of that pair is
\* requested, and the next request is page 1 of the next pair; a page whose
\* request failed is followed by the next page of the same pair; an
\* enumeration that is over has requested page 1 of every pair
C4_EmptyPageShortCircuit ==
    pc \in {"enum", "fetched"} =>
        /\ \A i \in 1..Len(requested) :
              requested[i].page =
                  1 + Cardinality({j \in 1..(i - 1) : requested[j].combo = requested[i].combo})
        /\ \A i, j \in 1..Len(requested) :
              (i < j /\ requested[i].res = "empty") => requested[j].combo > requested[i].combo
        /\ \A i \in 1..Len(requested) :
              LET nc == IF i < Len(requested) THEN requested[i + 1].combo ELSE combo
                  np == IF i < Len(requested) THEN requested[i + 1].page ELSE page
                  more == i < Len(requested) \/ pc = "enum"
              IN  /\ (requested[i].res = "empty" /\ more) =>
                        (nc = requested[i].combo + 1 /\ np = 1)
                  /\ (requested[i].res = "failed" /\ requested[i].page < cfg.number_of_pages) =>
                        (more /\ nc = requested[i].combo /\ np = requested[i].page + 1)
        /\ pc = "fetched" =>
              \A c \in 1..NCombos : \E i \in 1..Len(requested) :
                  requested[i].combo = c /\ requested[i].page = 1

\* C4 happens: page 1 of the first pair was read and empty, the next request
\* was page 1 of the second pair, it failed, and page 2 of the second pair
\* was requested after it
C4_Witness ==
    /\ pc \in {"enum", "fetched"}
    /\ Len(requested) = 3
    /\ requested[1] = [combo |-> 1, page |-> 1, res |-> "empty"]
    /\ requested[2] = [combo |-> 2, page |-> 1, res |-> "failed"]
    /\ requested[3].combo = 2 /\ requested[3].page = 2

\* the files the deduplicate pass groups, and the group of one of them
Grouped == {f \in store : Considered(f)}

GroupOf(f) == {g \in Grouped : SameKey(Detail(g), Detail(f))}

MaxId(G) == CHOOSE n \in {ToInt(Detail(g).map_id) : g \in G} :
                \A g \in G : ToInt(Detail(g).map_id) <= n

\* the Main / Dupl lines of the report under the heading of a key
LinesOf(f, status) ==
    {i \in 1..Len(report) : /\ report[i].status = status
                            /\ report[i].map_name = Detail(f).map_name
                            /\ report[i].author = Detail(f).author}

\* C5: after the deduplicate pass, of every group of more than one file
\* exactly one member lies outside the quarantine folder, it carries the
\* highest id, every other member lies in 'duplicates', and the report has
\* one Main line with the highest id and one Dupl line per other member
C5_DedupCanonical ==
    pc = "done" =>
        \A f \in Grouped :
            Cardinality(GroupOf(f)) > 1 =>
                /\ Cardinality({g \in GroupOf(f) : g.dir # Duplicates}) = 1
                /\ \A g \in GroupOf(f) :
                      g.dir # Duplicates => ToInt(Detail(g).map_id) = MaxId(GroupOf(f))
                /\ Cardinality(LinesOf(f, "Main")) = 1
                /\ \A i \in LinesOf(f, "Main") : ToInt(report[i].map_id) = MaxId(GroupOf(f))
                /\ Cardinality(LinesOf(f, "Dupl")) = Cardinality(GroupOf(f)) - 1

\* the bucket the claim names for a file name
ClaimedBucket(name) ==
    IF ~EndsWith(name, DotBfg) THEN NonBfg
    ELSE LET first == Fields(name)[1]
             digit == IF Len(first) > 0 THEN first[Len(first)] ELSE ""
         IN  IF digit = "5" THEN Stars5 ELSE IF digit = "4" THEN Stars4 ELSE Stars3

\* a file name the organize pass cannot route: a map file with fewer than
\* three fields or an empty first field
Unroutable(name) ==
    /\ EndsWith(name, DotBfg)
    /\ (Len(Fields(name)) < 3 \/ Len(Fields(name)[1]) = 0)

NoCollision(files, f) == \A g \in files : ~(g.dir = ClaimedBucket(f.name) /\ g.name = f.name)

C7_FailureContained ==
    /\ pc # "crashed"
    /\ pc = "exit_nonew" => \A i \in 1..Len(requested) : requested[i].res # "failed"

\* C9: at most one file under the maps directory carries a given id as its
\* second filename field
C9_OneFilePerId ==
    \A f, g \in store :
        (IsDigit(SecondField(f.name)) /\ SecondField(f.name) = SecondField(g.name)) => f = g

\* C10: against a stable listing, a run that finds every listed map on disk
\* and ends (with no page failing) leaves the store as an uninterrupted run
\* would: every artifact in a bucket or the quarantine folder, none
\* directly under the directory
C10_RerunSafe ==
    (/\ pc = "exit_nonew"
     /\ listing.stable
     /\ \A i \in 1..Len(requested) : requested[i].res # "failed") =>
        \A f \in store : IsDigit(SecondField(f.name)) => f.dir # Root

\* ------------------------------------------------------------------ claims about the resolver

\* a text whose part after the last period is non-empty and alphanumeric
ValidText(t) == IsAlnum(AfterLastDot(t))

\* the first such text of a list
FirstValid(ts) == ts[CHOOSE i \in 1..Len(ts) : ValidText(ts[i]) /\ \A j \in 1..(i - 1) : ~ValidText(ts[j])]

\* the part of a file name after its last period
ExtensionOf(name) == LET parts == Split(name, ".") IN parts[Len(parts)]

\* C11: download_map uses the extension of the first 'Filename:' text whose
\* part after the last period is non-empty and alphanumeric; when no text
\* has one it finds no filename, returns False and writes no file; so every
\* file it writes has a non-empty alphanumeric extension
C11_ResolverExtensionValid ==
    resolved.done =>
        /\ (\E i \in 1..Len(page_texts) : ValidText(page_texts[i])) =>
              /\ ~resolved.file_extension.none
              /\ resolved.file_extension.ext = AfterLastDot(FirstValid(page_texts))
        /\ (\A i \in 1..Len(page_texts) : ~ValidText(page_texts[i])) =>
              /\ resolved.file_extension.none
              /\ ~resolved.out.success
              /\ resolved.out.file = NoFile
        /\ resolved.out.file # NoFile => IsAlnum(ExtensionOf(resolved.out.file.name))

\* ------------------------------------------------------------------ claims about the group key

\* the header of a file yields an author value
HasAuthor(f) == f.header = "ok" /\ Len(f.author) > 0

\* two files of a scan lie in one group of the duplicates found
Together(i, j) ==
    \E g \in 1..Len(keys.duplicates) :
        /\ \E a \in 1..Len(keys.duplicates[g]) : keys.duplicates[g][a].file = probes[i]
        /\ \E b \in 1..Len(keys.duplicates[g]) : keys.duplicates[g][b].file = probes[j]

\* C12: the author of a file's group key is the author text of its header
\* when the header is found, parses and carries an author value, and
\* '<unknown>' in every other case; so two files with one map name and no
\* author value lie in one group
C12_AuthorSentinel ==
    keys.done =>
        /\ \A i \in 1..Len(probes) :
              keys.key[i].author = (IF HasAuthor(probes[i]) THEN probes[i].author ELSE Unknown)
        /\ \A i, j \in 1..Len(probes) :
              (/\ i # j
               /\ keys.key[i].map_name = keys.key[j].map_name
               /\ ~HasAuthor(probes[i])
               /\ ~HasAuthor(probes[j])) => Together(i, j)

====
